---- MODULE Spec2Model ----
(***************************************************************************)
(* Model of the Louvre MCP server (build/index.js): the three tool         *)
(* handlers get-artwork-detail, get-artwork-images and search-artwork, the *)
(* HTML fallback getImagesFromHtml and the selector formatImageResponse.   *)
(*                                                                         *)
(* Representation of JavaScript values                                      *)
(*   - a string that the code inspects (a URL) is a sequence of lexical    *)
(*     tokens: "/media/thumb/a.jpg" is <<"/", "media", "/", "thumb", "/",  *)
(*     "a.jpg">>.  s.startsWith('/') is Head(s) = "/", s.includes(w) is    *)
(*     "w is one of the tokens", string concatenation is \o, and '' is     *)
(*     <<>>.  No token of the model contains another token as a substring. *)
(*   - a string that the code only copies or uses as a property key (an    *)
(*     image type, an identifier) is a TLA+ string.                        *)
(*   - undefined is the value Undef (token strings), UndefStr (plain       *)
(*     strings) or UndefNum (numbers).                                     *)
(***************************************************************************)
EXTENDS Integers, Sequences, FiniteSets, TLC

VARIABLES
    pc,         \* position of the invocation: "idle", "awaitApi", "awaitHtml", "awaitSearch", "done"
    tool,       \* the tool invoked: "none", "detail", "images", "search"
    args,       \* the arguments of the invocation
    requests,   \* the outbound GET requests issued so far by this invocation, in order
    apiOutcome, \* what is known of the structured request: "none", "pending", "ok", "failed"
    htmlOutcome,\* what is known of the HTML detail-page request
    payload,    \* response.data of the structured request, once it succeeded
    page,       \* the img elements of the HTML detail page, once it was fetched
    images,     \* the image list handed to formatImageResponse (processedImages / images)
    cards,      \* the artwork records search-artwork built from the result cards
    searchPage, \* the result cards and the count element of the search page, once fetched
    pagination, \* totalResults and totalPages as search-artwork computed them
    result      \* what the handler returned or threw

vars == <<pc, tool, args, requests, apiOutcome, htmlOutcome, payload, page, images, cards,
          searchPage, pagination, result>>

-----------------------------------------------------------------------------
(* Bounds of the model *)

\* longest structured image array / keyed-object image map
MaxImgs == 2
\* most img elements on the HTML detail page
MaxHtmlImgs == 3
\* largest position a caller asks for
MaxPos == 2
\* most result cards on a search page
MaxCards == 1
\* most characters in the text of the result-count element
MaxCountLen == 3

-----------------------------------------------------------------------------
(* JavaScript values *)

Undef == <<"#undefined">>
UndefStr == "#undefined"
UndefNum == 0 - 1

\* a string value is truthy when it is neither undefined nor ''
Truthy(s) == s # Undef /\ s # <<>>
TruthyStr(s) == s # UndefStr /\ s # ""

\* a || b on strings
Or(a, b) == IF Truthy(a) THEN a ELSE b

\* s.startsWith('/')
StartsWithSlash(s) == Len(s) > 0 /\ s[1] = "/"

\* s.includes(w)
Includes(s, w) == \E i \in 1..Len(s) : s[i] = w

BASE_URL == <<"https://", "collections.louvre.fr">>
API_URL == <<"ark:/53355">>

\* the schemes a URL of the model can start with
Schemes == {"https://", "http://"}

\* a URL is absolute when it starts with a scheme
IsAbsolute(u) == Len(u) > 0 /\ u[1] \in Schemes

\* the URL forms the sources can carry
UrlAbsLarge == <<"https://", "media.example.org", "/", "large", "/", "a.jpg">>
UrlRootThumb == <<"/", "media", "/", "thumb", "/", "b.jpg">>
UrlRelative == <<"media", "/", "c.jpg">>
UrlRootSmallFull == <<"/", "media", "/", "small", "/", "full", "/", "d.jpg">>

Ids == {"cl010062370"}

-----------------------------------------------------------------------------
(* Own-property order of a JavaScript object (Object.keys / Object.entries): *)
(* canonical array-index keys first, in ascending numeric order, then the    *)
(* other string keys in insertion order.                                     *)

Range(seq) == {seq[i] : i \in 1..Len(seq)}

\* the canonical array-index keys the model's inputs can contain, ascending
IndexKeyStrs == <<"0", "1", "2">>

IsIndexKey(k) == k \in Range(IndexKeyStrs)

\* keys: the distinct keys of an object in insertion order
OwnKeys(keys) ==
    SelectSeq(IndexKeyStrs, LAMBDA k : k \in Range(keys))
        \o SelectSeq(keys, LAMBDA k : ~IsIndexKey(k))

-----------------------------------------------------------------------------
(* The structured payload's image field *)

\* an element of the image array, or a value of the image map
StrElem(u) ==
    [kind |-> "string", str |-> u, url |-> Undef, uri |-> Undef, src |-> Undef,
     path |-> Undef, type |-> UndefStr, position |-> UndefNum]

ObjElem(url, uri, src, path, type, position) ==
    [kind |-> "object", str |-> Undef, url |-> url, uri |-> uri, src |-> src,
     path |-> path, type |-> type, position |-> position]

NullElem ==
    [kind |-> "null", str |-> Undef, url |-> Undef, uri |-> Undef, src |-> Undef,
     path |-> Undef, type |-> UndefStr, position |-> UndefNum]

\* the elements an image array is built from
ArrayElems ==
    { StrElem(UrlRootThumb),
      StrElem(UrlRelative),
      ObjElem(UrlAbsLarge, Undef, Undef, Undef, "full", UndefNum),
      ObjElem(Undef, UrlRootThumb, Undef, Undef, "thumbnail", 7),
      ObjElem(Undef, Undef, UrlRelative, Undef, UndefStr, 0),
      ObjElem(<<>>, Undef, Undef, UrlRootSmallFull, "2", UndefNum),
      ObjElem(Undef, Undef, Undef, Undef, "full", 1),
      NullElem }

\* the keys and values an image map is built from
MapKeys == {"full", "thumbnail", "0"}

MapValues ==
    { StrElem(UrlRootThumb),
      ObjElem(Undef, UrlRelative, Undef, Undef, UndefStr, UndefNum),
      ObjElem(Undef, Undef, Undef, UrlAbsLarge, UndefStr, UndefNum) }

SeqsUpTo(S, n) == UNION {[1..k -> S] : k \in 0..n}

\* a JSON object as parsed: key/value pairs in document order, keys distinct
MapPairs == [key : MapKeys, value : MapValues]

ImageMaps ==
    {m \in SeqsUpTo(MapPairs, MaxImgs) :
        \A i, j \in 1..Len(m) : i # j => m[i].key # m[j].key}

ImageField(shape, items, pairs, str) ==
    [shape |-> shape, items |-> items, pairs |-> pairs, str |-> str]

\* every value the image field of a fetched payload takes in the model
ImageFields ==
    {ImageField("absent", <<>>, <<>>, Undef)}
        \cup {ImageField("string", <<>>, <<>>, s) : s \in {<<>>, UrlRootThumb}}
        \cup {ImageField("array", a, <<>>, Undef) : a \in SeqsUpTo(ArrayElems, MaxImgs)}
        \cup {ImageField("object", <<>>, m, Undef) : m \in ImageMaps}

\* Object.entries(artworkDetails.image)
ObjectEntries(pairs) ==
    LET keys == [i \in 1..Len(pairs) |-> pairs[i].key]
        valueOf(k) == (CHOOSE i \in 1..Len(pairs) : pairs[i].key = k)
        order == OwnKeys(keys)
    IN  [i \in 1..Len(order) |-> pairs[valueOf(order[i])]]

-----------------------------------------------------------------------------
(* Normalisation of the structured image field (get-artwork-images) *)

\* !artworkDetails.image || artworkDetails.image.length === 0
NoApiImages(image) ==
    \/ image.shape = "absent"
    \/ image.shape = "string" /\ image.str = <<>>
    \/ image.shape = "array" /\ Len(image.items) = 0

\* "Ensure it's an absolute URL"
EnsureAbsolute(imgUrl) ==
    IF StartsWithSlash(imgUrl) THEN BASE_URL \o imgUrl ELSE imgUrl

\* the URL of an array element
ArrayImgUrl(img) ==
    IF img.kind = "string" THEN img.str
    ELSE IF img.kind = "object" THEN Or(Or(Or(img.url, img.uri), img.src), img.path)
    ELSE Undef

\* the URL of a map value
MapImgUrl(value) ==
    IF value.kind = "string" THEN value.str
    ELSE IF value.kind = "object"
            /\ (Truthy(value.url) \/ Truthy(value.uri) \/ Truthy(value.src))
         THEN Or(Or(value.url, value.uri), value.src)
    ELSE Undef

\* img.type || 'unspecified'
TypeOrUnspecified(t) == IF TruthyStr(t) THEN t ELSE "unspecified"

Image(position, type, url) == [position |-> position, type |-> type, url |-> url]

RECURSIVE ProcessArrayOwnPosition(_, _)
\* mutant: an element's own position, when it has one, replaces the index
ProcessArrayOwnPosition(items, n) ==
    IF n = 0 THEN <<>>
    ELSE LET done == ProcessArrayOwnPosition(items, n - 1)
             img == items[n]
             imgUrl == ArrayImgUrl(img)
         IN  IF Truthy(imgUrl)
             THEN Append(done, Image(IF img.position # UndefNum THEN img.position
                                     ELSE n - 1,
                                     TypeOrUnspecified(img.type), EnsureAbsolute(imgUrl)))
             ELSE done

RECURSIVE ProcessArray(_, _)
\* artworkDetails.image.forEach((img, index) => ...) over the first n elements
ProcessArray(items, n) ==
    IF n = 0 THEN <<>>
    ELSE LET done == ProcessArray(items, n - 1)
             img == items[n]
             imgUrl == ArrayImgUrl(img)
         IN  IF Truthy(imgUrl)
             THEN Append(done, Image(n - 1, TypeOrUnspecified(img.type),
                                     EnsureAbsolute(imgUrl)))
             ELSE done

RECURSIVE ProcessMap(_, _)
\* Object.entries(artworkDetails.image).forEach(([key, value], index) => ...)
ProcessMap(entries, n) ==
    IF n = 0 THEN <<>>
    ELSE LET done == ProcessMap(entries, n - 1)
             imgUrl == MapImgUrl(entries[n].value)
         IN  IF Truthy(imgUrl)
             THEN Append(done, Image(n - 1, entries[n].key, EnsureAbsolute(imgUrl)))
             ELSE done

\* processedImages of the get-artwork-images handler
ProcessedImages(image) ==
    IF image.shape = "array" THEN ProcessArray(image.items, Len(image.items))
    ELSE IF image.shape = "object"
         THEN LET entries == ObjectEntries(image.pairs)
              IN  ProcessMap(entries, Len(entries))
    ELSE <<>>

-----------------------------------------------------------------------------
(* The HTML detail page (getImagesFromHtml) *)

ImgElement(src, dataSrc, alt) == [src |-> src, dataSrc |-> dataSrc, alt |-> alt]

\* the img elements a detail page is built from
HtmlElems ==
    { ImgElement(UrlRootThumb, Undef, "La Joconde"),
      ImgElement(Undef, UrlAbsLarge, UndefStr),
      ImgElement(UrlRelative, Undef, UndefStr),
      ImgElement(<<>>, UrlRootSmallFull, UndefStr),
      ImgElement(Undef, Undef, UndefStr) }

Pages == SeqsUpTo(HtmlElems, MaxHtmlImgs)

\* mutant: the 'large' / 'full' test comes first
ClassifyBySrcFullFirst(src) ==
    IF Includes(src, "large") \/ Includes(src, "full") THEN "full"
    ELSE IF Includes(src, "small") \/ Includes(src, "thumb") THEN "thumbnail"
    ELSE "unknown"

\* the type heuristic on the source URL
ClassifyBySrc(src) ==
    IF Includes(src, "small") \/ Includes(src, "thumb") THEN "thumbnail"
    ELSE IF Includes(src, "large") \/ Includes(src, "full") THEN "full"
    ELSE "unknown"

HtmlImage(position, type, url, alt) ==
    [position |-> position, type |-> type, url |-> url, alt |-> alt]

RECURSIVE ExtractPageImages(_, _)
\* $('img').each((index, element) => ...) over the first n elements
ExtractPageImages(elements, n) ==
    IF n = 0 THEN <<>>
    ELSE LET done == ExtractPageImages(elements, n - 1)
             img == elements[n]
             src == Or(img.src, img.dataSrc)
             alt == IF TruthyStr(img.alt) THEN img.alt ELSE ""
         IN  IF Truthy(src)
             THEN Append(done, HtmlImage(n - 1, ClassifyBySrc(src),
                                         EnsureAbsolute(src), alt))
             ELSE done

-----------------------------------------------------------------------------
(* What a handler returns.  The text payload is kept as its parts: the kind *)
(* of message, the identifier, position and type the text interpolates, and *)
(* one line per image URL it lists.                                         *)

Line(label, url) == [label |-> label, url |-> url]

\* the payload fields get-artwork-detail interpolates besides the image list
Meta(title, artist, date, medium, dimensions, description, url) ==
    [title |-> title, artist |-> artist, date |-> date, medium |-> medium,
     dimensions |-> dimensions, description |-> description, url |-> url]

NoMeta == Meta(UndefStr, UndefStr, UndefStr, UndefStr, UndefStr, UndefStr, Undef)

\* the text fields among them
TextFields == {"title", "artist", "date", "medium", "dimensions", "description"}

Response(kind, id, position, type, selectedType, open_browser, lines) ==
    [kind |-> kind, id |-> id, position |-> position, type |-> type,
     selectedType |-> selectedType, open_browser |-> open_browser, lines |-> lines,
     error |-> "", meta |-> NoMeta]

NoResult == Response("none", "", UndefNum, UndefStr, UndefStr, FALSE, <<>>)

\* an exception that escapes the handler
Thrown(error) == [NoResult EXCEPT !.kind = "thrown", !.error = error]

\* the kinds of result that report a failure to the caller
FailureKinds == {"thrown", "error"}

-----------------------------------------------------------------------------
(* formatImageResponse *)

\* mutant: the position is used as an index into the list
FindByIndex(imgs, positionNum) ==
    IF positionNum + 1 <= Len(imgs) THEN positionNum + 1 ELSE 0

\* images.find((img) => img.position === positionNum): index of the first match, 0 if none
FindByPosition(imgs, positionNum) ==
    IF \E i \in 1..Len(imgs) : imgs[i].position = positionNum
    THEN CHOOSE i \in 1..Len(imgs) :
            /\ imgs[i].position = positionNum
            /\ \A j \in 1..(i - 1) : imgs[j].position # positionNum
    ELSE 0

RECURSIVE GroupKeys(_, _)
\* the keys of imagesByType in the order the forEach created them
GroupKeys(imgs, n) ==
    IF n = 0 THEN <<>>
    ELSE LET done == GroupKeys(imgs, n - 1)
             imageType == TypeOrUnspecified(imgs[n].type)
         IN  IF imageType \in Range(done) THEN done ELSE Append(done, imageType)

\* imagesByType[imageType]
ImagesByType(imgs, imageType) ==
    SelectSeq(imgs, LAMBDA img : TypeOrUnspecified(img.type) = imageType)

\* Object.keys(imagesByType)
AvailableTypes(imgs) == OwnKeys(GroupKeys(imgs, Len(imgs)))

RECURSIVE InsertByPosition(_, _)
InsertByPosition(sorted, img) ==
    IF sorted = <<>> THEN <<img>>
    ELSE IF sorted[Len(sorted)].position <= img.position THEN Append(sorted, img)
    ELSE Append(InsertByPosition(SubSeq(sorted, 1, Len(sorted) - 1), img),
                sorted[Len(sorted)])

RECURSIVE SortByPositionDescending(_, _)
\* mutant: the comparator is b.position - a.position
SortByPositionDescending(imgs, n) ==
    IF n = 0 THEN <<>>
    ELSE LET rest == SortByPositionDescending(imgs, n - 1)
             before == SelectSeq(rest, LAMBDA img : img.position >= imgs[n].position)
             after == SelectSeq(rest, LAMBDA img : img.position < imgs[n].position)
         IN  before \o <<imgs[n]>> \o after

RECURSIVE SortByPosition(_, _)
\* selectedImages.sort((a, b) => a.position - b.position), a stable sort
SortByPosition(imgs, n) ==
    IF n = 0 THEN <<>>
    ELSE InsertByPosition(SortByPosition(imgs, n - 1), imgs[n])

\* the requested type, or the first available one
SelectedType(type, availableTypes) ==
    IF type \in Range(availableTypes) THEN type
    ELSE IF Len(availableTypes) > 0 THEN availableTypes[1]
    ELSE "unspecified"

RECURSIVE AllLinesFirstOfType(_, _, _)
\* mutant: only the first image of each type is listed
AllLinesFirstOfType(imgs, types, n) ==
    IF n = 0 THEN <<>>
    ELSE LET typeImages == ImagesByType(imgs, types[n])
         IN  Append(AllLinesFirstOfType(imgs, types, n - 1),
                    Line(types[n], typeImages[1].url))

RECURSIVE AllLines(_, _, _)
\* Object.entries(imagesByType).forEach(... typeImages.forEach(...)) over the first n types
AllLines(imgs, types, n) ==
    IF n = 0 THEN <<>>
    ELSE LET typeImages == ImagesByType(imgs, types[n])
         IN  AllLines(imgs, types, n - 1)
                \o [i \in 1..Len(typeImages) |-> Line(types[n], typeImages[i].url)]

formatImageResponse(id, type, position, imgs, open_browser) ==
    IF position # UndefNum
    THEN LET found == FindByPosition(imgs, position)
         IN  IF found = 0
             THEN Response("noImageAtPosition", id, position, UndefStr, UndefStr,
                           open_browser, <<>>)
             ELSE Response("single", id, position,
                           IF TruthyStr(type) THEN type ELSE "requested", UndefStr,
                           open_browser, <<Line(UndefStr, imgs[found].url)>>)
    ELSE LET availableTypes == AvailableTypes(imgs)
         IN  IF type # "all" /\ type # UndefStr
             THEN LET selectedType == SelectedType(type, availableTypes)
                      group == ImagesByType(imgs, selectedType)
                      selectedImages == SortByPosition(group, Len(group))
                  IN  Response("typed", id, UndefNum, type, selectedType, open_browser,
                               [i \in 1..Len(selectedImages) |->
                                    Line(selectedType, selectedImages[i].url)])
             ELSE Response("all", id, UndefNum, UndefStr, UndefStr, open_browser,
                           AllLines(imgs, availableTypes, Len(availableTypes)))

-----------------------------------------------------------------------------
(* Requests and their responses *)

Request(source, url) == [source |-> source, url |-> url]

\* the URL fetchLouvreAPI requests for a path
fetchLouvreAPI(path) ==
    LET url == BASE_URL \o path
    IN  IF url[Len(url)] = ".json" THEN url ELSE url \o <<".json">>

\* the url formatArtworkData derives: `${BASE_URL}/${API_URL}/${id}`, id given as tokens
formatArtworkDataUrl(id) == BASE_URL \o <<"/">> \o API_URL \o <<"/">> \o id

\* `/${API_URL}/${id}`
DetailPath(id) == <<"/">> \o API_URL \o <<"/", id>>

ApiRequest(id) == Request("json", fetchLouvreAPI(DetailPath(id)))

\* axios.get(`${BASE_URL}/${API_URL}/${id}`)
HtmlRequest(id) == Request("html", BASE_URL \o <<"/">> \o API_URL \o <<"/", id>>)

\* response.data: the image field and the other fields the handlers read
Payload(image, meta) == [image |-> image, meta |-> meta]

NoPayload == Payload(ImageField("absent", <<>>, <<>>, Undef), NoMeta)

\* a payload URL that is not the detail page of the artwork
ForeignUrl == <<"https://", "evil.example", "/", "x">>

\* the values of the other fields: each one present or absent
PayloadMetas ==
    {Meta(t, a, d, m, dm, ds, u) :
        t \in {UndefStr, "La Joconde"}, a \in {UndefStr, "Leonardo"},
        d \in {UndefStr, "1503"}, m \in {UndefStr, "huile"},
        dm \in {UndefStr, "77 x 53"}, ds \in {UndefStr, "portrait"},
        u \in {Undef, ForeignUrl}}

\* the payloads the structured endpoint answers get-artwork-images with
ImagesPayloads ==
    {Payload(f, Meta("La Joconde", UndefStr, UndefStr, UndefStr, UndefStr, UndefStr, Undef)) :
        f \in ImageFields}

\* the payloads the structured endpoint answers get-artwork-detail with
DetailPayloads ==
    {Payload(f, meta) :
        f \in {ImageField("absent", <<>>, <<>>, Undef),
               ImageField("array", <<>>, <<>>, Undef),
               ImageField("array", <<StrElem(UrlRootThumb), StrElem(UrlAbsLarge)>>,
                          <<>>, Undef),
               ImageField("array", <<NullElem,
                                     ObjElem(UrlAbsLarge, Undef, Undef, Undef,
                                             "full", UndefNum)>>, <<>>, Undef),
               ImageField("object", <<>>,
                          <<[key |-> "full", value |-> StrElem(UrlRootThumb)]>>, Undef),
               ImageField("string", <<>>, <<>>, UrlRootThumb)},
        meta \in PayloadMetas}

Args(id, type, position, open_browser, query, pageNo) ==
    [id |-> id, type |-> type, position |-> position, open_browser |-> open_browser,
     query |-> query, page |-> pageNo]

NoArgs == Args("", UndefStr, UndefNum, FALSE, "", UndefNum)

\* z.enum(["thumbnail", "full", "all"]).optional()
TypeArgs == {UndefStr, "thumbnail", "full", "all"}

\* z.number().optional()
PositionArgs == {UndefNum} \cup 0..MaxPos

\* a JavaScript number: an integer, or NaN
Num(v) == [nan |-> FALSE, val |-> v]
NaN == [nan |-> TRUE, val |-> 0]

Pagination(totalResults, totalPages) ==
    [totalResults |-> totalResults, totalPages |-> totalPages]

NoPagination == Pagination(Num(0), Num(0))

\* $('.search__results__count'): absent, or present with a text
CountElement(present, text) == [present |-> present, text |-> text]

\* the parts of the fetched search page the handler reads
SearchPage(elements, countElement) == [cards |-> elements, count |-> countElement]

NoSearchPage == SearchPage(<<>>, CountElement(FALSE, <<>>))

Init ==
    /\ pc = "idle"
    /\ tool = "none"
    /\ args = NoArgs
    /\ requests = <<>>
    /\ apiOutcome = "none"
    /\ htmlOutcome = "none"
    /\ payload = NoPayload
    /\ page = <<>>
    /\ images = <<>>
    /\ cards = <<>>
    /\ searchPage = NoSearchPage
    /\ pagination = NoPagination
    /\ result = NoResult

-----------------------------------------------------------------------------
(* get-artwork-detail *)

\* the handler runs up to its await of fetchLouvreAPI
InvokeDetail ==
    /\ pc = "idle"
    /\ \E id \in Ids :
        /\ args' = Args(id, UndefStr, UndefNum, FALSE, "", UndefNum)
        /\ requests' = <<ApiRequest(id)>>
    /\ tool' = "detail"
    /\ apiOutcome' = "pending"
    /\ pc' = "awaitApi"
    /\ UNCHANGED <<htmlOutcome, payload, page, images, cards, searchPage, pagination, result>>

\* fetchLouvreAPI rethrows and the handler has no try: the error escapes
DetailApiFails ==
    /\ pc = "awaitApi" /\ tool = "detail"
    /\ apiOutcome' = "failed"
    /\ result' = Thrown("FetchError")
    /\ pc' = "done"
    /\ UNCHANGED <<tool, args, requests, htmlOutcome, payload, page, images, cards, searchPage, pagination>>

\* String(element) as Array.prototype.join renders it
JoinedElement(img) ==
    IF img.kind = "string" THEN img.str
    ELSE IF img.kind = "object" THEN <<"[object Object]">>
    ELSE <<>>

\* `${value}` of a plain string and of a URL: undefined renders as 'undefined'
Interpolate(value) == IF value = UndefStr THEN "undefined" ELSE value
InterpolateUrl(value) == IF value = Undef THEN <<"undefined">> ELSE value

\* the fields of the payload as the template renders them
RenderedMeta(response) ==
    Meta(Interpolate(response.meta.title), Interpolate(response.meta.artist),
         Interpolate(response.meta.date), Interpolate(response.meta.medium),
         Interpolate(response.meta.dimensions), Interpolate(response.meta.description),
         InterpolateUrl(response.meta.url))

\* the text of get-artwork-detail for a fetched payload
DetailText(id, response) ==
    IF response.image.shape # "array"
    THEN Thrown("TypeError")   \* response.image.join is not a function / of undefined
    ELSE [Response("detail", id, UndefNum, UndefStr, UndefStr, FALSE,
                   [i \in 1..Len(response.image.items) |->
                        Line(UndefStr, JoinedElement(response.image.items[i]))])
            EXCEPT !.meta = RenderedMeta(response)]

DetailApiSucceeds ==
    /\ pc = "awaitApi" /\ tool = "detail"
    /\ \E response \in DetailPayloads :
        /\ payload' = response
        /\ result' = DetailText(args.id, response)
    /\ apiOutcome' = "ok"
    /\ pc' = "done"
    /\ UNCHANGED <<tool, args, requests, htmlOutcome, page, images, cards, searchPage, pagination>>

-----------------------------------------------------------------------------
(* get-artwork-images and getImagesFromHtml *)

InvokeImages ==
    /\ pc = "idle"
    /\ \E id \in Ids, type \in TypeArgs, position \in PositionArgs,
          open_browser \in BOOLEAN :
        /\ args' = Args(id, type, position, open_browser, "", UndefNum)
        /\ requests' = <<ApiRequest(id)>>
    /\ tool' = "images"
    /\ apiOutcome' = "pending"
    /\ pc' = "awaitApi"
    /\ UNCHANGED <<htmlOutcome, payload, page, images, cards, searchPage, pagination, result>>

\* getImagesFromHtml up to its await of axios.get
CallGetImagesFromHtml ==
    /\ requests' = Append(requests, HtmlRequest(args.id))
    /\ htmlOutcome' = "pending"
    /\ pc' = "awaitHtml"
    /\ UNCHANGED <<images, result>>

\* mutant: the handler has no catch clause, as in get-artwork-detail
ImagesApiFailsThrows ==
    /\ pc = "awaitApi" /\ tool = "images"
    /\ apiOutcome' = "failed"
    /\ result' = Thrown("FetchError")
    /\ pc' = "done"
    /\ UNCHANGED <<tool, args, requests, htmlOutcome, payload, page, images, cards, searchPage, pagination>>

\* mutant: the catch clause requests the structured endpoint again
ImagesApiFailsRetry ==
    /\ pc = "awaitApi" /\ tool = "images"
    /\ Len(requests) < 3
    /\ apiOutcome' = "pending"
    /\ requests' = Append(requests, ApiRequest(args.id))
    /\ UNCHANGED <<pc, tool, args, htmlOutcome, payload, page, images, cards, searchPage, pagination, result>>

\* the catch clause of the handler
ImagesApiFails ==
    /\ pc = "awaitApi" /\ tool = "images"
    /\ apiOutcome' = "failed"
    /\ CallGetImagesFromHtml
    /\ UNCHANGED <<tool, args, payload, page, cards, searchPage, pagination>>

\* mutant: an image field that is not an array is never used
FallsBackUnlessArray(artworkDetails) ==
    \/ NoApiImages(artworkDetails.image)
    \/ Len(ProcessedImages(artworkDetails.image)) = 0
    \/ artworkDetails.image.shape # "array"

\* mutant: the second check, on processedImages, is missing
FallsBackOnEmptyFieldOnly(artworkDetails) == NoApiImages(artworkDetails.image)

\* whether the handler falls back to the HTML page for a fetched payload
FallsBackToHtml(artworkDetails) ==
    \/ NoApiImages(artworkDetails.image)
    \/ Len(ProcessedImages(artworkDetails.image)) = 0

ImagesApiSucceeds ==
    /\ pc = "awaitApi" /\ tool = "images"
    /\ apiOutcome' = "ok"
    /\ \E artworkDetails \in ImagesPayloads :
        /\ payload' = artworkDetails
        /\ IF FallsBackToHtml(artworkDetails)
           THEN CallGetImagesFromHtml
           ELSE /\ images' = ProcessedImages(artworkDetails.image)
                /\ result' = formatImageResponse(args.id, args.type, args.position,
                                                 ProcessedImages(artworkDetails.image),
                                                 args.open_browser)
                /\ pc' = "done"
                /\ UNCHANGED <<requests, htmlOutcome>>
    /\ UNCHANGED <<tool, args, page, cards, searchPage, pagination>>

\* the catch clause of getImagesFromHtml: an error message is returned
HtmlFails ==
    /\ pc = "awaitHtml"
    /\ htmlOutcome' = "failed"
    /\ result' = [Response("error", args.id, UndefNum, UndefStr, UndefStr,
                           args.open_browser, <<>>) EXCEPT !.error = "FetchError"]
    /\ pc' = "done"
    /\ UNCHANGED <<tool, args, requests, apiOutcome, payload, page, images, cards, searchPage, pagination>>

\* mutant: the images.length > 0 check is missing
HtmlResultUnchecked(id, type, position, imgs, open_browser) ==
    formatImageResponse(id, type, position, imgs, open_browser)

\* what getImagesFromHtml returns for a fetched page
HtmlResult(id, type, position, imgs, open_browser) ==
    IF Len(imgs) > 0
    THEN formatImageResponse(id, type, position, imgs, open_browser)
    ELSE Response("noImages", id, UndefNum, UndefStr, UndefStr, open_browser, <<>>)

HtmlSucceeds ==
    /\ pc = "awaitHtml"
    /\ htmlOutcome' = "ok"
    /\ \E elements \in Pages :
        /\ page' = elements
        /\ images' = ExtractPageImages(elements, Len(elements))
        /\ result' = HtmlResult(args.id, args.type, args.position,
                                ExtractPageImages(elements, Len(elements)),
                                args.open_browser)
    /\ pc' = "done"
    /\ UNCHANGED <<tool, args, requests, apiOutcome, payload, cards, searchPage, pagination>>

-----------------------------------------------------------------------------
(* search-artwork *)

CardElement(href, dataSrc, src) == [href |-> href, dataSrc |-> dataSrc, src |-> src]

ArkHref == <<"/", "ark:/53355", "/", "cl010062370">>

\* a localised link to the same artwork
LocalisedHref == <<"/", "en", "/", "ark:/53355", "/", "cl010062370">>

\* the result cards a search page is built from
CardElems ==
    { CardElement(ArkHref, UrlRootThumb, Undef),
      CardElement(ArkHref, <<>>, UrlAbsLarge),
      CardElement(Undef, Undef, UrlRelative),
      CardElement(LocalisedHref, Undef, UrlAbsLarge),
      CardElement(ArkHref, Undef, Undef) }

SearchPages == SeqsUpTo(CardElems, MaxCards)

\* url.split('/').pop()
LastSegment(url) ==
    IF url[Len(url)] = "/" THEN <<>> ELSE <<url[Len(url)]>>

\* the record artworks.push(...) builds from one card
CardArtwork(card) ==
    LET url == card.href
        id == IF Truthy(url) THEN LastSegment(url) ELSE <<>>
        imageUrl == Or(Or(card.dataSrc, card.src), <<>>)
    IN  [ark |-> id,
         id |-> id,
         image |-> IF Truthy(imageUrl) THEN <<Image(0, "thumbnail", imageUrl)>> ELSE <<>>,
         url |-> IF Truthy(url) THEN BASE_URL \o url ELSE <<>>]

\* the characters the text of the count element is made of
CountChars == {"4", "2", " ", "r"}

CountElements ==
    {CountElement(FALSE, <<>>)}
        \cup {CountElement(TRUE, t) : t \in SeqsUpTo(CountChars, MaxCountLen)}

\* .text() of the selection: '' when nothing matched
ElementText(element) == IF element.present THEN element.text ELSE <<>>

RECURSIVE TrimStart(_)
TrimStart(t) == IF t # <<>> /\ Head(t) = " " THEN TrimStart(Tail(t)) ELSE t

RECURSIVE TrimEnd(_)
TrimEnd(t) ==
    IF t # <<>> /\ t[Len(t)] = " " THEN TrimEnd(SubSeq(t, 1, Len(t) - 1)) ELSE t

\* t.trim()
Trim(t) == TrimEnd(TrimStart(t))

RECURSIVE SplitFirst(_)
\* t.split(' ')[0]
SplitFirst(t) ==
    IF t = <<>> \/ Head(t) = " " THEN <<>> ELSE <<Head(t)>> \o SplitFirst(Tail(t))

Digits == <<"0", "1", "2", "3", "4", "5", "6", "7", "8", "9">>

IsDigit(c) == c \in Range(Digits)

DigitValue(c) == (CHOOSE i \in 1..Len(Digits) : Digits[i] = c) - 1

\* t.replace(/\D/g, '')
StripNonDigits(t) == SelectSeq(t, IsDigit)

RECURSIVE DecimalValue(_)
DecimalValue(t) ==
    IF t = <<>> THEN 0
    ELSE 10 * DecimalValue(SubSeq(t, 1, Len(t) - 1)) + DigitValue(t[Len(t)])

\* parseInt(t) of a string of digits: NaN when it is empty
parseInt(t) == IF t = <<>> THEN NaN ELSE Num(DecimalValue(t))

\* results per page
PageSize == 20

\* Math.ceil(n / 20)
CeilPages(n) == IF n.nan THEN NaN ELSE Num((n.val + PageSize - 1) \div PageSize)

\* "Get pagination information"
PaginationOf(countElement) ==
    LET first == SplitFirst(Trim(ElementText(countElement)))
        totalResultsText == IF first # <<>> THEN first ELSE <<"0">>
        totalResults == parseInt(StripNonDigits(totalResultsText))
    IN  Pagination(totalResults, CeilPages(totalResults))

SearchRequest(query, pageNo) ==
    Request("search", BASE_URL \o <<"/", "recherche", "?page=", ToString(pageNo), "&q=", query>>)

InvokeSearch ==
    /\ pc = "idle"
    /\ tool' = "search"
    /\ \E query \in {"", "venus"}, pageNo \in {UndefNum, 2} :
        /\ args' = Args("", UndefStr, UndefNum, FALSE, query, pageNo)
        /\ IF query = ""
           THEN /\ result' = Response("askQuery", "", UndefNum, UndefStr, UndefStr,
                                      FALSE, <<>>)
                /\ pc' = "done"
                /\ UNCHANGED requests
           ELSE /\ requests' = <<SearchRequest(query,
                                               IF pageNo = UndefNum THEN 1 ELSE pageNo)>>
                /\ pc' = "awaitSearch"
                /\ UNCHANGED result
    /\ UNCHANGED <<apiOutcome, htmlOutcome, payload, page, images, cards, searchPage, pagination>>

\* axios.get is not guarded: the error escapes the handler
SearchFails ==
    /\ pc = "awaitSearch"
    /\ result' = Thrown("FetchError")
    /\ pc' = "done"
    /\ UNCHANGED <<tool, args, requests, apiOutcome, htmlOutcome, payload, page, images,
                   cards, searchPage, pagination>>

SearchSucceeds ==
    /\ pc = "awaitSearch"
    /\ \E elements \in SearchPages, countElement \in CountElements :
        LET artworks == [i \in 1..Len(elements) |-> CardArtwork(elements[i])]
        IN  /\ cards' = artworks
            /\ searchPage' = SearchPage(elements, countElement)
            /\ pagination' = PaginationOf(countElement)
            /\ result' = Response("search", "", UndefNum, UndefStr, UndefStr, FALSE,
                                  [i \in 1..Len(artworks) |->
                                        Line(UndefStr, artworks[i].url)])
    /\ pc' = "done"
    /\ UNCHANGED <<tool, args, requests, apiOutcome, htmlOutcome, payload, page, images>>

-----------------------------------------------------------------------------
(* The server *)

\* the handler has returned; nothing of the invocation is kept
Return ==
    /\ pc = "done"
    /\ pc' = "idle"
    /\ tool' = "none"
    /\ args' = NoArgs
    /\ requests' = <<>>
    /\ apiOutcome' = "none"
    /\ htmlOutcome' = "none"
    /\ payload' = NoPayload
    /\ page' = <<>>
    /\ images' = <<>>
    /\ cards' = <<>>
    /\ searchPage' = NoSearchPage
    /\ pagination' = NoPagination
    /\ result' = NoResult

Next ==
    \/ InvokeDetail
    \/ DetailApiFails
    \/ DetailApiSucceeds
    \/ InvokeImages
    \/ ImagesApiFails
    \/ ImagesApiSucceeds
    \/ HtmlFails
    \/ HtmlSucceeds
    \/ InvokeSearch
    \/ SearchFails
    \/ SearchSucceeds
    \/ Return

Spec == Init /\ [][Next]_vars

-----------------------------------------------------------------------------
(* Properties *)

\* the requests of this invocation that went to a source
RequestsTo(source) == SelectSeq(requests, LAMBDA r : r.source = source)

\* the handler of get-artwork-images has returned
ImagesDone == tool = "images" /\ pc = "done"

\* the structured fetch succeeded and its image field normalises to some entry
StructuredHasImages ==
    tool = "images" /\ apiOutcome = "ok" /\ Len(ProcessedImages(payload.image)) > 0

\* the structured fetch succeeded and its image field normalises to no entry
StructuredHasNoImages ==
    tool = "images" /\ apiOutcome = "ok" /\ Len(ProcessedImages(payload.image)) = 0

Urls(seq) == [i \in 1..Len(seq) |-> seq[i].url]

C2_HtmlWhenStructuredHasNoImages ==
    StructuredHasNoImages =>
        /\ RequestsTo("html") = <<HtmlRequest(args.id)>>
        /\ htmlOutcome # "none"
        /\ (pc = "done" /\ htmlOutcome = "ok") =>
                /\ images = ExtractPageImages(page, Len(page))
                /\ Range(Urls(result.lines)) \subseteq Range(Urls(images))
                /\ Len(images) > 0 => result.kind # "noImages"

C2_Witness ==
    /\ StructuredHasNoImages
    /\ payload.image.shape = "array"
    /\ Len(payload.image.items) > 0
    /\ pc = "done"
    /\ htmlOutcome = "ok"
    /\ result.kind = "all"
    /\ Len(result.lines) > 0

\* C3: in one invocation of get-artwork-images the structured endpoint is
\* requested exactly once and first, the HTML detail page at most once and
\* only when the outcome of the structured request is known, and a failed
\* structured request is followed by the HTML request, not by a retry.
C3_OneRequestPerSource ==
    tool = "images" =>
        /\ RequestsTo("json") = <<ApiRequest(args.id)>>
        /\ requests[1].source = "json"
        /\ Len(RequestsTo("html")) <= 1
        /\ Len(requests) = Len(RequestsTo("json")) + Len(RequestsTo("html"))
        /\ RequestsTo("html") # <<>> => apiOutcome \in {"ok", "failed"}
        /\ apiOutcome = "failed" => RequestsTo("html") = <<HtmlRequest(args.id)>>

C3_Witness ==
    /\ ImagesDone
    /\ apiOutcome = "failed"
    /\ htmlOutcome = "ok"
    /\ Len(requests) = 2

\* C4: a detail or image query ends in a failure (a thrown error or an
\* error-message result) only if both the structured fetch and the HTML
\* detail-page fetch failed.
C4_FailureOnlyIfBothSourcesFail ==
    (pc = "done" /\ tool \in {"detail", "images"} /\ result.kind \in FailureKinds)
        => (apiOutcome = "failed" /\ htmlOutcome = "failed")

\* C5: every image entry placed in a record, from a structured array or map,
\* from the HTML page or from a search card, has an absolute url.
C5_EveryImageUrlAbsolute ==
    /\ \A i \in 1..Len(images) : IsAbsolute(images[i].url)
    /\ \A c \in 1..Len(cards) :
            \A i \in 1..Len(cards[c].image) : IsAbsolute(cards[c].image[i].url)

\* formatImageResponse was called on the list in images and returned
Formatted == ImagesDone /\ Len(images) > 0

\* C6: with a position P supplied, formatImageResponse returns exactly the
\* image whose position is P when the list has one, whatever type was
\* requested, and the "no image at position P" result when it has none.
C6_PositionLookup ==
    (Formatted /\ args.position # UndefNum) =>
        IF \E i \in 1..Len(images) : images[i].position = args.position
        THEN /\ result.kind = "single"
             /\ Len(result.lines) = 1
             /\ \A i \in 1..Len(images) :
                    images[i].position = args.position
                        => result.lines[1].url = images[i].url
        ELSE /\ result.kind = "noImageAtPosition"
             /\ result.position = args.position
             /\ result.lines = <<>>

C6_Witness ==
    /\ Formatted
    /\ args.position = 1
    /\ args.type = "thumbnail"
    /\ Len(images) = 1
    /\ images[1].position = 1
    /\ images[1].type = "full"
    /\ result.kind = "single"

\* the lines of the answer that carry a type label
LinesOf(label) == SelectSeq(result.lines, LAMBDA l : l.label = label)

\* the images of the list that have a type
ImagesOf(type) == SelectSeq(images, LAMBDA img : img.type = type)

TypesOf(imgs) == {imgs[i].type : i \in 1..Len(imgs)}

\* C7: with no position and type 'all' or omitted, formatImageResponse lists
\* every image exactly once: as many lines as images, the lines of one type
\* contiguous, and the lines of each type the images of that type in list order.
C7_AllListsEveryImageOnce ==
    (Formatted /\ args.position = UndefNum /\ args.type \in {"all", UndefStr}) =>
        /\ result.kind = "all"
        /\ Len(result.lines) = Len(images)
        /\ \A i \in 1..Len(result.lines) : result.lines[i].label \in TypesOf(images)
        /\ \A t \in TypesOf(images) : Urls(LinesOf(t)) = Urls(ImagesOf(t))
        /\ \A i, j, k \in 1..Len(result.lines) :
                (i < j /\ j < k /\ result.lines[i].label = result.lines[k].label)
                    => result.lines[j].label = result.lines[i].label

C7_Witness ==
    /\ Formatted
    /\ args.position = UndefNum
    /\ args.type = "all"
    /\ Len(images) = 2
    /\ images[1].type = images[2].type
    /\ images[1].url # images[2].url
    /\ result.kind = "all"

Perms(n) == {f \in [1..n -> 1..n] : \A i, j \in 1..n : i # j => f[i] # f[j]}

\* lines lists exactly the images imgs, each once, in an order of non-decreasing position
ListsSortedByPosition(lines, imgs) ==
    /\ Len(lines) = Len(imgs)
    /\ \E f \in Perms(Len(imgs)) :
            /\ \A i \in 1..Len(imgs) : lines[i].url = imgs[f[i]].url
            /\ \A i \in 1..(Len(imgs) - 1) :
                    imgs[f[i]].position <= imgs[f[i + 1]].position

\* the type branch of formatImageResponse ran for a type T other than 'all'
TypeRequested ==
    Formatted /\ args.position = UndefNum /\ args.type \notin {"all", UndefStr}

\* C8: with no position and a requested type T that some image has,
\* formatImageResponse lists exactly the images of type T, ordered
\* non-decreasing by position.
C8_TypeListsItsImagesSorted ==
    (TypeRequested /\ args.type \in TypesOf(images)) =>
        /\ result.kind = "typed"
        /\ result.selectedType = args.type
        /\ \A i \in 1..Len(result.lines) : result.lines[i].label = args.type
        /\ ListsSortedByPosition(result.lines, ImagesOf(args.type))

C8_Witness ==
    /\ TypeRequested
    /\ args.type = "thumbnail"
    /\ Len(ImagesOf("thumbnail")) = 2
    /\ Len(images) > 2
    /\ ImagesOf("thumbnail")[1].url # ImagesOf("thumbnail")[2].url
    /\ result.kind = "typed"

\* C9: with no position, a non-empty list and a requested type T that no image
\* has, formatImageResponse returns the non-empty group of the type of the
\* first image of the list, never a not-found result.
C9_FallbackIsFirstDiscoveredType ==
    (TypeRequested /\ args.type \notin TypesOf(images)) =>
        /\ result.kind = "typed"
        /\ Len(result.lines) > 0
        /\ result.selectedType = images[1].type
        /\ Urls(result.lines) = Urls(ImagesOf(images[1].type))

TextKinds == {"single", "noImageAtPosition", "typed", "all", "noImages", "error"}

\* C11: get-artwork-images returns exactly one text payload and lets no
\* exception escape, for every structured outcome, HTML outcome, type and
\* position: nothing is returned before the handler ends, what it ends with
\* is a text result, a position no image has gives the 'no image at position'
\* text, a type no image has gives a non-empty group, and an empty list the
\* 'no images' text (or the error text when the page fetch failed).
C11_AlwaysOneTextPayload ==
    tool = "images" =>
        /\ pc # "done" => result = NoResult
        /\ pc = "done" =>
            /\ result.kind \in TextKinds
            /\ result.kind # "thrown"
            /\ result.id = args.id
            /\ (htmlOutcome = "failed") = (result.kind = "error")
            /\ (Len(images) > 0 /\ args.position # UndefNum
                    /\ \A i \in 1..Len(images) : images[i].position # args.position)
                  => result.kind = "noImageAtPosition"
            /\ (Len(images) > 0 /\ args.position = UndefNum
                    /\ args.type \notin {"all", UndefStr} \cup TypesOf(images))
                  => (result.kind = "typed" /\ Len(result.lines) > 0)

C11_Witness ==
    /\ ImagesDone
    /\ apiOutcome = "failed"
    /\ htmlOutcome = "failed"
    /\ args.position = 1
    /\ args.type = "full"
    /\ result.kind = "error"


\* the indices of the array elements that carry a URL, ascending
ElementsWithUrl(items) ==
    SelectSeq([i \in 1..Len(items) |-> i], LAMBDA i : Truthy(ArrayImgUrl(items[i])))

\* the handler answered from a structured image array
AnsweredFromArray ==
    /\ ImagesDone
    /\ apiOutcome = "ok"
    /\ htmlOutcome = "none"
    /\ payload.image.shape = "array"

\* C12: when the structured image field is an array, every element with a URL
\* becomes one entry, whose position is the element's explicit position when
\* it has one and its array index otherwise, and whose type is the element's
\* own type, or 'unspecified' when it has none.
C12_ArrayEntryPositionAndType ==
    AnsweredFromArray =>
        LET items == payload.image.items
            kept == ElementsWithUrl(items)
        IN  /\ Len(images) = Len(kept)
            /\ \A k \in 1..Len(kept) :
                /\ images[k].position =
                        IF items[kept[k]].position # UndefNum
                        THEN items[kept[k]].position
                        ELSE kept[k] - 1
                /\ images[k].type =
                        IF TruthyStr(items[kept[k]].type)
                        THEN items[kept[k]].type
                        ELSE "unspecified"


\* search-artwork fetched and read a result page
SearchDone == tool = "search" /\ pc = "done" /\ result.kind = "search"

RECURSIVE UpToWhitespace(_)
UpToWhitespace(t) ==
    IF t = <<>> \/ Head(t) = " " THEN <<>> ELSE <<Head(t)>> \o UpToWhitespace(Tail(t))

RECURSIVE FirstToken(_)
\* the first whitespace-delimited token of a text, <<>> if it has none
FirstToken(t) ==
    IF t = <<>> THEN <<>>
    ELSE IF Head(t) = " " THEN FirstToken(Tail(t))
    ELSE UpToWhitespace(t)

\* the integer the digits of a token form, 0 when it has no digit
DigitsOrZero(token) ==
    LET digits == SelectSeq(token, IsDigit)
    IN  IF digits = <<>> THEN 0 ELSE DecimalValue(digits)

\* C13: totalResults is the integer formed by the digits of the first
\* whitespace-delimited token of the result-count element, 0 when the element
\* is absent or that token has no digit, and totalPages is
\* ceil(totalResults / 20), a non-negative integer.
C13_PaginationFromCountElement ==
    SearchDone =>
        LET expected ==
                IF searchPage.count.present
                THEN DigitsOrZero(FirstToken(searchPage.count.text))
                ELSE 0
        IN  /\ pagination.totalResults = Num(expected)
            /\ ~pagination.totalPages.nan
            /\ pagination.totalPages.val >= 0
            /\ pagination.totalPages.val * PageSize >= expected
            /\ (pagination.totalPages.val - 1) * PageSize < expected


\* get-artwork-detail fetched a payload
DetailFetched == tool = "detail" /\ pc = "done" /\ apiOutcome = "ok"

\* C14: the detail-page URL reported for an artwork is derived from its
\* identifier as baseUrl + apiPathSegment + "/" + id, in the text of
\* get-artwork-detail and in every search result, never taken from the payload's
\* url field or the scraped href.
C14_ReportedUrlIsDerived ==
    /\ (DetailFetched /\ result.kind = "detail")
            => result.meta.url = formatArtworkDataUrl(<<args.id>>)
    /\ SearchDone
            => \A c \in 1..Len(cards) : cards[c].url = formatArtworkDataUrl(cards[c].id)

\* C15: a field missing from a fetched payload is no error for
\* get-artwork-detail: it returns the detail text, with the empty string for a
\* missing text field and no image for a missing image list.
C15_MissingFieldIsEmpty ==
    DetailFetched =>
        /\ result.kind = "detail"
        /\ \A f \in TextFields :
                payload.meta[f] = UndefStr => result.meta[f] = ""
        /\ payload.image.shape = "absent" => result.lines = <<>>


\* the handler answered from a fetched HTML page
AnsweredFromHtml == ImagesDone /\ htmlOutcome = "ok"

\* the source URL of an img element: src, or data-src when src is missing or empty
SourceUrl(element) ==
    IF element.src # Undef /\ element.src # <<>> THEN element.src ELSE element.dataSrc

HasSourceUrl(element) == SourceUrl(element) # Undef /\ SourceUrl(element) # <<>>

Mentions(url, word) == word \in Range(url)

\* C16: in the HTML fallback every img element with a source URL gives one
\* entry, typed from that URL alone by the first rule that applies:
\* 'thumbnail' when it contains 'small' or 'thumb', 'full' when it contains
\* 'large' or 'full', 'unknown' otherwise; an element without a source URL
\* gives no entry.
C16_HtmlTypeFromSourceUrl ==
    AnsweredFromHtml =>
        LET kept == SelectSeq([i \in 1..Len(page) |-> i],
                              LAMBDA i : HasSourceUrl(page[i]))
        IN  /\ Len(images) = Len(kept)
            /\ \A k \in 1..Len(kept) :
                LET url == SourceUrl(page[kept[k]])
                IN  images[k].type =
                        IF Mentions(url, "small") \/ Mentions(url, "thumb")
                        THEN "thumbnail"
                        ELSE IF Mentions(url, "large") \/ Mentions(url, "full")
                        THEN "full"
                        ELSE "unknown"

C16_Witness ==
    /\ AnsweredFromHtml
    /\ Len(page) = 3
    /\ Len(images) = 2
    /\ ~HasSourceUrl(page[2])
    /\ images[1].type = "thumbnail"
    /\ Mentions(SourceUrl(page[1]), "full")
    /\ images[2].type = "unknown"

\* C17: in every image list get-artwork-images builds, positions strictly
\* increase along the list; so at most one image has a requested position, and
\* the group listed for a requested type is in its discovery order.
C17_PositionsStrictlyIncrease ==
    tool = "images" =>
        /\ \A i, j \in 1..Len(images) :
                i < j => images[i].position < images[j].position
        /\ Cardinality({i \in 1..Len(images) : images[i].position = args.position}) <= 1
        /\ TypeRequested => Urls(result.lines) = Urls(ImagesOf(result.selectedType))

C17_Witness ==
    /\ TypeRequested
    /\ AnsweredFromArray
    /\ Len(images) = 2
    /\ Len(result.lines) > 0
    /\ payload.image.items[1].position > payload.image.items[2].position
    /\ payload.image.items[2].position # UndefNum

====
